---- MODULE Spec2Model ----
(***************************************************************************)
(* The EMP message broker of sim_broker.py: a Broker object owning the     *)
(* dict of outgoing message queues, the running flag and three threads     *)
(* (msg receiver, fetch watcher, queue parser), driven by start() and      *)
(* stop() calls of the main thread and by clients connecting to the two    *)
(* TCP ports.  msg_lib (Message, MsgQueue) is not part of the sources at   *)
(* hand; its operators below follow the written specification.             *)
(***************************************************************************)
EXTENDS Integers, Sequences, FiniteSets, TLC

\* ------------------------------------------------------------------ bounds
MaxSubmits == 2

MaxFetches == 2

MaxTime == 2

MaxStops == 1

\* --------------------------------------------------------------- constants
\* max_msg_size of conf.dat, counted in characters of the printable wire form
MAX_MSG_SIZE == 6

\* message time-to-live, in clock ticks
TTL == 1

\* bytes of the fixed header of a frame: destination address, payload length
HeaderLen == 2

VARIABLES
    running,          \* Broker.running
    outgoing_queues,  \* Broker.outgoing_queues: dest_addr -> queue of Message
    cur,              \* generation of the Thread objects the Broker holds now
    pc,               \* position of every thread, by role and generation
    port,             \* per listener role, the generation whose socket is bound (0: free)
    msg,              \* local variable msg of each msg receiver thread
    bpc,              \* position of the main thread inside stop()
    now,              \* the clock
    lastSubmit,       \* history: the latest submit connection: what was submitted, the
                      \* transport outcome and the sends the handler attempted
    sent,             \* history: what the sender of each accepted message submitted,
                      \* by message id (ids count the accepted messages)
    lastFetch,        \* history: the latest fetch connection: the name asked, the
                      \* transport outcome, the msg popped and the sends attempted
    delivered,        \* history: ids of the messages received in fetch responses, in order
    lost,             \* history: ids of messages popped by a fetch whose send raised
    expired,          \* history: ids of messages discarded as expired
    stopMark,         \* history: how many messages had been accepted when stop() was
                      \* last called
    startNoop         \* history: the latest call of start() or stop() was a start()
                      \* that found the broker running

vars == <<running, outgoing_queues, cur, pc, port, msg, bpc, now, lastSubmit, sent,
          lastFetch, delivered, lost, expired, stopMark, startNoop>>

Roles == {"recv", "fetch", "parser"}

Listeners == {"recv", "fetch"}

Gens == 1..(MaxStops + 1)

NoMsg == [id |-> 0, dest_addr |-> 0, raw_msg |-> <<>>, createdAt |-> 0]

Min(a, b) == IF a < b THEN a ELSE b

\* ------------------------------------------------- transport (hex) encoding
HexLower == <<"0", "1", "2", "3", "4", "5", "6", "7", "8", "9", "a", "b", "c", "d", "e", "f">>

HexUpper == <<"0", "1", "2", "3", "4", "5", "6", "7", "8", "9", "A", "B", "C", "D", "E", "F">>

\* value of one hex digit, either case; -1 for any other character
HexVal(c) ==
    IF \E i \in 1..16 : HexLower[i] = c
    THEN (CHOOSE i \in 1..16 : HexLower[i] = c) - 1
    ELSE IF \E i \in 1..16 : HexUpper[i] = c
         THEN (CHOOSE i \in 1..16 : HexUpper[i] = c) - 1
         ELSE -1

\* str.decode('hex'): fails on odd length or on a non-hex character
HexDecode(w) ==
    IF Len(w) % 2 # 0 \/ \E i \in 1..Len(w) : HexVal(w[i]) = -1
    THEN [ok |-> FALSE, bytes |-> <<>>]
    ELSE [ok |-> TRUE,
          bytes |-> [i \in 1..(Len(w) \div 2) |->
                        16 * HexVal(w[2 * i - 1]) + HexVal(w[2 * i])]]

\* HexEncode writing upper-case digits
HexEncodeUpper(bs) ==
    [i \in 1..(2 * Len(bs)) |->
        IF i % 2 = 1 THEN HexUpper[(bs[(i + 1) \div 2] \div 16) + 1]
                     ELSE HexUpper[(bs[i \div 2] % 16) + 1]]

\* str.encode('hex'): two lower-case digits per byte
HexEncode(bs) ==
    [i \in 1..(2 * Len(bs)) |->
        IF i % 2 = 1 THEN HexLower[(bs[(i + 1) \div 2] \div 16) + 1]
                     ELSE HexLower[(bs[i \div 2] % 16) + 1]]

\* conn.recv(MAX_MSG_SIZE): at most MAX_MSG_SIZE characters of what was sent
Recv(w) == SubSeq(w, 1, Min(Len(w), MAX_MSG_SIZE))

\* ------------------------------------------------------- msg_lib.Message
\* Message(raw): parse the header; the payload length must agree with the frame
ParseOk(bs) == Len(bs) >= HeaderLen /\ bs[2] = Len(bs) - HeaderLen

Message(bs, id, t) == [id |-> id, dest_addr |-> bs[1], raw_msg |-> bs, createdAt |-> t]

\* ------------------------------------------------------- msg_lib.MsgQueue
IsExpired(m, t) == t - m.createdAt > TTL

MsgQueuePush(q, m) == Append(q, m)

Live(q, t) == SelectSeq(q, LAMBDA m : ~IsExpired(m, t))

\* MsgQueuePop serving the oldest message whatever its age
MsgQueuePopAny(q, t) ==
    IF q = <<>>
    THEN [ok |-> FALSE, msg |-> NoMsg, queue |-> <<>>, dropped |-> {}]
    ELSE [ok |-> TRUE, msg |-> Head(q), queue |-> Tail(q), dropped |-> {}]

\* pop at time t: discards expired messages, returns the oldest remaining one;
\* ok = FALSE stands for raising Queue.Empty
MsgQueuePop(q, t) ==
    LET live == Live(q, t)
        gone == {q[i].id : i \in {j \in 1..Len(q) : IsExpired(q[j], t)}}
    IN IF live = <<>>
       THEN [ok |-> FALSE, msg |-> NoMsg, queue |-> <<>>, dropped |-> gone]
       ELSE [ok |-> TRUE, msg |-> Head(live), queue |-> Tail(live), dropped |-> gone]

\* ------------------------------------------------------------ wire inputs
\* dest 1, payload 0x0a
WireA == <<"0", "1", "0", "1", "0", "a">>

\* dest 2, payload 0x0b, written with an upper-case digit
WireB == <<"0", "2", "0", "1", "0", "B">>

\* payload length field 2, one payload byte
WireBadLen == <<"0", "1", "0", "2", "0", "a">>

\* not hex
WireBadHex == <<"0", "1", "0", "1", "0", "g">>

\* a valid frame followed by more data: longer than MAX_MSG_SIZE
WireLong == WireA \o <<"f", "f">>

Wires == {WireA, WireB, WireBadLen, WireBadHex, WireLong}

\* queue names a fetch may ask for
Names == {1, 2}

\* transport outcome of one connection: fine, recv raises, or every send raises
Errs == {"none", "recv", "send"}

\* ------------------------------------------------------------------- Init
Init ==
    /\ running = FALSE
    /\ outgoing_queues = <<>>
    /\ cur = 1
    /\ pc = [r \in Roles |-> [g \in Gens |-> "new"]]
    /\ port = [r \in Listeners |-> 0]
    /\ msg = [g \in Gens |-> NoMsg]
    /\ bpc = "idle"
    /\ now = 0
    /\ lastSubmit = [n |-> 0, wire |-> <<>>, err |-> "none", sends |-> <<>>,
                     closed |-> TRUE]
    /\ sent = <<>>
    /\ lastFetch = [n |-> 0, name |-> 0, err |-> "none", msg |-> NoMsg, sends |-> <<>>,
                    closed |-> TRUE]
    /\ delivered = <<>>
    /\ lost = {}
    /\ expired = {}
    /\ stopMark = 0
    /\ startNoop = FALSE

\* ---------------------------------------------------------- Broker.start
\* Start without the test of self.running
StartUnguarded ==
    /\ bpc = "idle"
    /\ running' = TRUE
    /\ pc' = [r \in Roles |->
                [pc[r] EXCEPT ![cur] = IF r \in Listeners THEN "bind" ELSE "sleep"]]
    /\ startNoop' = running
    /\ UNCHANGED <<outgoing_queues, cur, port, msg, bpc, now, lastSubmit, sent, lastFetch,
                   delivered, lost, expired, stopMark>>

\* a started listener is about to bind; a started queue parser is in its loop
Start ==
    /\ bpc = "idle"
    /\ IF ~running
       THEN /\ running' = TRUE
            /\ pc' = [r \in Roles |->
                        [pc[r] EXCEPT ![cur] = IF r \in Listeners THEN "bind" ELSE "sleep"]]
       ELSE UNCHANGED <<running, pc>>
    /\ startNoop' = running
    /\ UNCHANGED <<outgoing_queues, cur, port, msg, bpc, now, lastSubmit, sent, lastFetch,
                   delivered, lost, expired, stopMark>>

\* ----------------------------------------------------------- Broker.stop
\* running = False, then the two joins begin
StopSignal ==
    /\ bpc = "idle"
    /\ running
    /\ cur <= MaxStops
    /\ running' = FALSE
    /\ bpc' = "join"
    /\ stopMark' = Len(sent)
    /\ startNoop' = FALSE
    /\ UNCHANGED <<outgoing_queues, cur, pc, port, msg, now, lastSubmit, sent, lastFetch,
                   delivered, lost, expired>>

\* StopRedefine with joins that wait for the listeners to finish
StopRedefineJoined ==
    /\ bpc = "join"
    /\ \A r \in Listeners : pc[r][cur] \in {"done", "crashed"}
    /\ cur' = cur + 1
    /\ bpc' = "idle"
    /\ UNCHANGED <<running, outgoing_queues, pc, port, msg, now, lastSubmit, sent, lastFetch,
                   delivered, lost, expired, stopMark, startNoop>>

\* both joins have returned (thread finished or timeout): fresh Thread objects
StopRedefine ==
    /\ bpc = "join"
    /\ cur' = cur + 1
    /\ bpc' = "idle"
    /\ UNCHANGED <<running, outgoing_queues, pc, port, msg, now, lastSubmit, sent, lastFetch,
                   delivered, lost, expired, stopMark, startNoop>>

\* ------------------------------------------------- listener set-up and loop
\* while self.running: back to accept, or leave the loop and sock.close()
LoopPc == IF running THEN "accept" ELSE "done"

LoopPort(r) == IF running THEN port ELSE [port EXCEPT ![r] = 0]

\* socket(), bind (raises when the port is still bound), listen, first loop test
Bind(r, g) ==
    /\ r \in Listeners
    /\ pc[r][g] = "bind"
    /\ IF port[r] # 0
       THEN /\ pc' = [pc EXCEPT ![r][g] = "crashed"]
            /\ UNCHANGED port
       ELSE /\ pc' = [pc EXCEPT ![r][g] = LoopPc]
            /\ port' = IF running THEN [port EXCEPT ![r] = g] ELSE port
    /\ UNCHANGED <<running, outgoing_queues, cur, msg, bpc, now, lastSubmit, sent, lastFetch,
                   delivered, lost, expired, stopMark, startNoop>>

\* sock.accept() raises (timeout): continue
AcceptTimeout(r, g) ==
    /\ r \in Listeners
    /\ pc[r][g] = "accept"
    /\ pc' = [pc EXCEPT ![r][g] = LoopPc]
    /\ port' = LoopPort(r)
    /\ UNCHANGED <<running, outgoing_queues, cur, msg, bpc, now, lastSubmit, sent, lastFetch,
                   delivered, lost, expired, stopMark, startNoop>>

\* accept returns a connection whose client sends nothing: conn.recv, which has no
\* timeout, does not return
RecvBlocks(r, g) ==
    /\ r \in Listeners
    /\ pc[r][g] = "accept"
    /\ pc' = [pc EXCEPT ![r][g] = "stuck"]
    /\ UNCHANGED <<running, outgoing_queues, cur, port, msg, bpc, now, lastSubmit, sent,
                   lastFetch, delivered, lost, expired, stopMark, startNoop>>

\* ----------------------------------------------------------- msg receiver
\* SubmitReply keeping the Message of a frame whose header check failed
SubmitReplyKeep(w, e, id, t) ==
    IF e = "recv"
    THEN [sends |-> <<"FAIL">>, msg |-> NoMsg]
    ELSE LET dec == HexDecode(Recv(w))
         IN IF ~dec.ok
            THEN [sends |-> <<"FAIL">>, msg |-> NoMsg]
            ELSE IF ~ParseOk(dec.bytes)
                 THEN [sends |-> <<"FAIL">>, msg |-> Message(dec.bytes, id, t)]
                 ELSE IF e = "send"
                      THEN [sends |-> <<"OK", "FAIL">>, msg |-> NoMsg]
                      ELSE [sends |-> <<"OK">>, msg |-> Message(dec.bytes, id, t)]

\* SubmitReply answering OK before the frame is decoded
SubmitReplyEarlyOK(w, e, id, t) ==
    IF e = "recv"
    THEN [sends |-> <<"FAIL">>, msg |-> NoMsg]
    ELSE LET dec == HexDecode(Recv(w))
         IN IF ~dec.ok \/ ~ParseOk(dec.bytes)
            THEN [sends |-> <<"OK", "FAIL">>, msg |-> NoMsg]
            ELSE IF e = "send"
                 THEN [sends |-> <<"OK", "FAIL">>, msg |-> NoMsg]
                 ELSE [sends |-> <<"OK">>, msg |-> Message(dec.bytes, id, t)]

\* receive, decode and answer one connection: the sends attempted, in order, and
\* the Message to enqueue (NoMsg when the handler ends in its except branch)
SubmitReply(w, e, id, t) ==
    IF e = "recv"
    THEN [sends |-> <<"FAIL">>, msg |-> NoMsg]
    ELSE LET dec == HexDecode(Recv(w))
         IN IF ~dec.ok \/ ~ParseOk(dec.bytes)
            THEN [sends |-> <<"FAIL">>, msg |-> NoMsg]
            ELSE IF e = "send"
                 THEN [sends |-> <<"OK", "FAIL">>, msg |-> NoMsg]
                 ELSE [sends |-> <<"OK">>, msg |-> Message(dec.bytes, id, t)]

\* conn.close() ends the try branch and the except branch alike
SubmitConn(g, w, e) ==
    /\ pc["recv"][g] = "accept"
    /\ lastSubmit.n < MaxSubmits
    /\ LET r == SubmitReply(w, e, Len(sent) + 1, now)
       IN /\ lastSubmit' = [n |-> lastSubmit.n + 1, wire |-> w, err |-> e,
                            sends |-> r.sends, closed |-> TRUE]
          /\ sent' = IF r.msg # NoMsg THEN Append(sent, w) ELSE sent
          /\ msg' = [msg EXCEPT ![g] = r.msg]
          /\ pc' = [pc EXCEPT !["recv"][g] = IF r.msg # NoMsg THEN "push" ELSE LoopPc]
          /\ port' = IF r.msg # NoMsg THEN port ELSE LoopPort("recv")
    /\ UNCHANGED <<running, outgoing_queues, cur, bpc, now, lastFetch, delivered, lost,
                   expired, stopMark, startNoop>>

\* PushMsg rebuilding the dict with the one queue it pushes to
PushMsgClobber(queues, m) ==
    LET d == m.dest_addr
        q == IF d \in DOMAIN queues THEN queues[d] ELSE <<>>
    IN [a \in {d} |-> MsgQueuePush(q, m)]

\* add msg to the outgoing queue dict, keyed by dest_addr
PushMsg(queues, m) ==
    LET d == m.dest_addr
        q == IF d \in DOMAIN queues THEN queues[d] ELSE <<>>
    IN [a \in DOMAIN queues \cup {d} |->
           IF a = d THEN MsgQueuePush(q, m) ELSE queues[a]]

\* EnsureQueue putting a new MsgQueue under the key whatever is there
EnsureQueueFresh(queues, d) ==
    [a \in DOMAIN queues \cup {d} |-> IF a = d THEN <<>> ELSE queues[a]]

\* if not self.outgoing_queues.get(dest_addr): a new MsgQueue under that key
EnsureQueue(queues, d) ==
    IF d \in DOMAIN queues /\ queues[d] # <<>>
    THEN queues
    ELSE [a \in DOMAIN queues \cup {d} |-> IF a = d THEN <<>> ELSE queues[a]]

SubmitEnsure(g) ==
    /\ pc["recv"][g] = "push"
    /\ outgoing_queues' = EnsureQueue(outgoing_queues, msg[g].dest_addr)
    /\ pc' = [pc EXCEPT !["recv"][g] = "append"]
    /\ UNCHANGED <<running, cur, port, msg, bpc, now, lastSubmit, sent, lastFetch, delivered,
                   lost, expired, stopMark, startNoop>>

\* self.outgoing_queues[msg.dest_addr].push(msg), and the next loop test
SubmitPush(g) ==
    /\ pc["recv"][g] = "append"
    /\ outgoing_queues' = PushMsg(outgoing_queues, msg[g])
    /\ msg' = [msg EXCEPT ![g] = NoMsg]
    /\ pc' = [pc EXCEPT !["recv"][g] = LoopPc]
    /\ port' = LoopPort("recv")
    /\ UNCHANGED <<running, cur, bpc, now, lastSubmit, sent, lastFetch, delivered, lost,
                   expired, stopMark, startNoop>>

\* ---------------------------------------------------------- fetch watcher
\* FetchLookup putting an empty queue under a name that has none
FetchLookupCreate(queues, name, t) ==
    IF name \notin DOMAIN queues
    THEN [raised |-> TRUE, msg |-> NoMsg,
          queues |-> [a \in DOMAIN queues \cup {name} |->
                         IF a = name THEN <<>> ELSE queues[a]],
          dropped |-> {}]
    ELSE LET p == MsgQueuePop(queues[name], t)
         IN [raised |-> ~p.ok,
             msg |-> p.msg,
             queues |-> [queues EXCEPT ![name] = p.queue],
             dropped |-> p.dropped]

\* FetchLookup reading the head of the queue without removing it
FetchLookupPeek(queues, name, t) ==
    IF name \notin DOMAIN queues
    THEN [raised |-> TRUE, msg |-> NoMsg, queues |-> queues, dropped |-> {}]
    ELSE LET p == MsgQueuePop(queues[name], t)
         IN [raised |-> ~p.ok, msg |-> p.msg, queues |-> queues, dropped |-> p.dropped]

\* msg = None; try: msg = self.outgoing_queues[queue_name].pop(); raised tells
\* whether the except branch (KeyError, Queue.Empty) was taken
FetchLookup(queues, name, t) ==
    IF name \notin DOMAIN queues
    THEN [raised |-> TRUE, msg |-> NoMsg, queues |-> queues, dropped |-> {}]
    ELSE LET p == MsgQueuePop(queues[name], t)
         IN [raised |-> ~p.ok,
             msg |-> p.msg,
             queues |-> [queues EXCEPT ![name] = p.queue],
             dropped |-> p.dropped]

EmptyResp == [kind |-> "EMPTY", bytes |-> <<>>]

\* FetchSends answering nothing when there is no msg
FetchSendsSilent(raised, m) ==
    IF m # NoMsg THEN <<[kind |-> "MSG", bytes |-> HexEncode(m.raw_msg)]>> ELSE <<>>

\* the sends attempted: EMPTY in the except branch, the hex of raw_msg if msg
FetchSends(raised, m) ==
    (IF raised THEN <<EmptyResp>> ELSE <<>>)
    \o (IF m # NoMsg THEN <<[kind |-> "MSG", bytes |-> HexEncode(m.raw_msg)]>> ELSE <<>>)

\* conn.close() is the last statement of the try block: a raising recv or send
\* leaves through except: continue without it
FetchConn(g, name, e) ==
    /\ pc["fetch"][g] = "accept"
    /\ lastFetch.n < MaxFetches
    /\ pc' = [pc EXCEPT !["fetch"][g] = LoopPc]
    /\ port' = LoopPort("fetch")
    /\ IF e = "recv"
       THEN /\ lastFetch' = [n |-> lastFetch.n + 1, name |-> 0, err |-> e,
                             msg |-> NoMsg, sends |-> <<>>, closed |-> FALSE]
            /\ UNCHANGED <<outgoing_queues, expired, delivered, lost>>
       ELSE LET l == FetchLookup(outgoing_queues, name, now)
                all == FetchSends(l.raised, l.msg)
            IN /\ outgoing_queues' = l.queues
               /\ expired' = expired \cup l.dropped
               /\ lastFetch' = [n |-> lastFetch.n + 1, name |-> name, err |-> e,
                                msg |-> l.msg,
                                sends |-> IF e = "send" THEN SubSeq(all, 1, 1) ELSE all,
                                closed |-> e = "none"]
               /\ delivered' = IF e = "none" /\ l.msg # NoMsg
                               THEN Append(delivered, l.msg.id) ELSE delivered
               /\ lost' = IF e = "send" /\ l.msg # NoMsg
                          THEN lost \cup {l.msg.id} ELSE lost
    /\ UNCHANGED <<running, cur, msg, bpc, now, lastSubmit, sent, stopMark, startNoop>>

\* ----------------------------------------------------------- queue parser
\* the loop body, sleep(REFRESH_TIME), and the next loop test
Sleep(g) ==
    /\ pc["parser"][g] = "sleep"
    /\ pc' = [pc EXCEPT !["parser"][g] = IF running THEN "sleep" ELSE "done"]
    /\ UNCHANGED <<running, outgoing_queues, cur, port, msg, bpc, now, lastSubmit, sent,
                   lastFetch, delivered, lost, expired, stopMark, startNoop>>

\* ------------------------------------------------------------------ clock
Tick ==
    /\ now < MaxTime
    /\ now' = now + 1
    /\ UNCHANGED <<running, outgoing_queues, cur, pc, port, msg, bpc, lastSubmit, sent,
                   lastFetch, delivered, lost, expired, stopMark, startNoop>>

Next ==
    \/ Start
    \/ StopSignal
    \/ StopRedefine
    \/ \E r \in Listeners, g \in Gens : Bind(r, g)
    \/ \E r \in Listeners, g \in Gens : AcceptTimeout(r, g)
    \/ \E r \in Listeners, g \in Gens : RecvBlocks(r, g)
    \/ \E g \in Gens, w \in Wires, e \in Errs : SubmitConn(g, w, e)
    \/ \E g \in Gens : SubmitEnsure(g)
    \/ \E g \in Gens : SubmitPush(g)
    \/ \E g \in Gens, n \in Names, e \in Errs : FetchConn(g, n, e)
    \/ \E g \in Gens : Sleep(g)
    \/ Tick

Spec == Init /\ [][Next]_vars

\* one run of the broker: started once, never stopped, every client sending its
\* request at once
NextData ==
    \/ ~running /\ Start
    \/ \E r \in Listeners, g \in Gens : Bind(r, g)
    \/ \E r \in Listeners, g \in Gens : AcceptTimeout(r, g)
    \/ \E g \in Gens, w \in Wires, e \in Errs : SubmitConn(g, w, e)
    \/ \E g \in Gens : SubmitEnsure(g)
    \/ \E g \in Gens : SubmitPush(g)
    \/ \E g \in Gens, n \in Names, e \in Errs : FetchConn(g, n, e)
    \/ \E g \in Gens : Sleep(g)
    \/ Tick

SpecData == Init /\ [][NextData]_vars

\* the same, every started thread taking its own steps in the end and time
\* passing; no client has to connect
SpecDataFair ==
    /\ SpecData
    /\ WF_vars(Tick)
    /\ \A r \in Listeners, g \in Gens : WF_vars(Bind(r, g))
    /\ \A g \in Gens : WF_vars(SubmitEnsure(g)) /\ WF_vars(SubmitPush(g)) /\ WF_vars(Sleep(g))

\* start, stop and restart around one message: one well-formed submit and one
\* fetch for its destination, or a client that stays silent; no transport error,
\* the clock standing still
NextLife ==
    \/ Start
    \/ StopSignal
    \/ StopRedefine
    \/ \E r \in Listeners, g \in Gens : Bind(r, g)
    \/ \E r \in Listeners, g \in Gens : AcceptTimeout(r, g)
    \/ \E r \in Listeners, g \in Gens : RecvBlocks(r, g)
    \/ \E g \in Gens : lastSubmit.n = 0 /\ SubmitConn(g, WireA, "none")
    \/ \E g \in Gens : SubmitEnsure(g)
    \/ \E g \in Gens : SubmitPush(g)
    \/ \E g \in Gens : lastFetch.n = 0 /\ FetchConn(g, 1, "none")
    \/ \E g \in Gens : Sleep(g)

SpecLife == Init /\ [][NextLife]_vars

\* the same, every thread that can take a step of its own taking it in the end:
\* a started thread runs, a join with a timeout returns. Nothing makes accept or
\* recv return: no timeout is set on the sockets, and no client has to connect or
\* to send
SpecLifeFair ==
    /\ SpecLife
    /\ WF_vars(StopRedefine)
    /\ \A r \in Listeners, g \in Gens : WF_vars(Bind(r, g))
    /\ \A g \in Gens : WF_vars(SubmitEnsure(g)) /\ WF_vars(SubmitPush(g)) /\ WF_vars(Sleep(g))

\* ================================================================ properties
Range(f) == {f[i] : i \in DOMAIN f}

SetMin(S) == CHOOSE x \in S : \A y \in S : x <= y

\* the ids of the messages held by the queue store
Queued == UNION {Range([i \in DOMAIN outgoing_queues[a] |-> outgoing_queues[a][i].id]) :
                 a \in DOMAIN outgoing_queues}

\* the destination a submitted frame is addressed to
DestOf(w) == HexDecode(Recv(w)).bytes[1]

\* accepted messages for destination d that no fetch has popped and no pop discarded
Pending(d) ==
    {id \in 1..Len(sent) : DestOf(sent[id]) = d} \ (Range(delivered) \cup lost \cup expired)

\* a fetch connection is handled in this step
FetchStep == lastFetch'.n # lastFetch.n

\* a submit connection is handled in this step
SubmitStep == lastSubmit'.n # lastSubmit.n

\* C1: whenever OK has been sent for a message, the message is already in the queue
\* store, or has since been popped by a fetch or discarded as expired.
C1_EnqueuedBeforeOK ==
    \A id \in 1..Len(sent) : id \in Queued \cup Range(delivered) \cup lost \cup expired

\* messages of one destination are received by fetches in the order of acceptance
FifoOrder ==
    \A i, j \in DOMAIN delivered :
        (i < j /\ DestOf(sent[delivered[i]]) = DestOf(sent[delivered[j]]))
            => delivered[i] < delivered[j]

\* C2: messages of a destination are returned in the order they were accepted, and,
\* while nothing can have expired, a fetch made after messages were accepted for its
\* destination returns the oldest of them not yet returned (A, then B).
C2_Fifo ==
    /\ []FifoOrder
    /\ [][(FetchStep /\ lastFetch'.err = "none" /\ now <= TTL
           /\ Pending(lastFetch'.name) # {})
              => lastFetch'.msg.id = SetMin(Pending(lastFetch'.name))]_vars

\* C3: no message is received by two fetches, and a message popped by a fetch is in
\* no queue afterwards.
C3_AtMostOnce ==
    /\ \A i, j \in DOMAIN delivered : i # j => delivered[i] # delivered[j]
    /\ (Range(delivered) \cup lost) \cap Queued = {}

\* two fetches for one destination have each received a message
C3_Witness ==
    /\ Len(delivered) >= 2
    /\ DestOf(sent[delivered[1]]) = DestOf(sent[delivered[2]])

\* the unexpired messages of destination d, oldest first, worked out from the ages
Unexpired(d) ==
    IF d \in DOMAIN outgoing_queues
    THEN SelectSeq(outgoing_queues[d], LAMBDA m : now - m.createdAt <= TTL)
    ELSE <<>>

FrameOk(w) ==
    LET r == Recv(w)
    IN /\ Len(r) % 2 = 0
       /\ \A i \in 1..Len(r) : HexVal(r[i]) >= 0
       /\ Len(r) >= 2 * HeaderLen
       /\ 16 * HexVal(r[3]) + HexVal(r[4]) = (Len(r) \div 2) - HeaderLen

\* C5: a submit whose frame was received and fails to decode is answered FAIL, and
\* the connection changes nothing in the queue store, neither then nor later.
C5_MalformedSubmit ==
    [][(SubmitStep /\ lastSubmit'.err # "recv" /\ ~FrameOk(lastSubmit'.wire)) =>
          /\ lastSubmit'.sends = <<"FAIL">>
          /\ outgoing_queues' = outgoing_queues
          /\ sent' = sent
          /\ \A g \in Gens : pc'["recv"][g] # "push"]_vars

\* a frame with a wrong payload length was answered FAIL while its destination's
\* queue holds a message
C5_Witness ==
    /\ lastSubmit.wire = WireBadLen
    /\ lastSubmit.sends = <<"FAIL">>
    /\ 1 \in DOMAIN outgoing_queues
    /\ outgoing_queues[1] # <<>>

IsLower(w) == \A i \in 1..Len(w) : w[i] \in Range(HexLower)

\* C7 as claimed: the bytes sent in a fetch response are the bytes the sender
\* submitted.
C7_RoundTrip ==
    lastFetch.msg # NoMsg =>
        \A k \in DOMAIN lastFetch.sends : lastFetch.sends[k].bytes = sent[lastFetch.msg.id]

\* C7 as amended: the response is the lower-case hex of the frame decoded from the
\* first MAX_MSG_SIZE characters received; it equals what was submitted when that
\* was lower-case hex of at most MAX_MSG_SIZE characters.
C7_RoundTripDecoded ==
    lastFetch.msg # NoMsg =>
        LET w == sent[lastFetch.msg.id]
            r == lastFetch.sends[1].bytes
        IN /\ Len(lastFetch.sends) = 1
           /\ IsLower(r)
           /\ HexDecode(r) = HexDecode(SubSeq(w, 1, Min(Len(w), MAX_MSG_SIZE)))
           /\ (Len(w) <= MAX_MSG_SIZE /\ IsLower(w)) => r = w

\* a frame submitted with an upper-case digit came back in lower case
C7_Witness ==
    /\ lastFetch.msg # NoMsg
    /\ sent[lastFetch.msg.id] = WireB
    /\ lastFetch.sends[1].bytes # WireB

\* C8: a fetch for an address only returns a message that was submitted to that
\* address, and the push of a message for X leaves every other queue as it was.
C8_Isolation ==
    /\ [](lastFetch.msg # NoMsg => DestOf(sent[lastFetch.msg.id]) = lastFetch.name)
    /\ [][\A g \in Gens :
            (pc["recv"][g] \in {"push", "append"} /\ pc'["recv"][g] # pc["recv"][g]) =>
               LET x == DestOf(sent[msg[g].id])
               IN /\ DOMAIN outgoing_queues' = DOMAIN outgoing_queues \cup {x}
                  /\ \A a \in DOMAIN outgoing_queues :
                        a # x => outgoing_queues'[a] = outgoing_queues[a]]_vars

\* a message for one address was pushed while the other address had a queued message
\* that a fetch has since received
C8_Witness ==
    /\ lastFetch.msg # NoMsg
    /\ \E a \in DOMAIN outgoing_queues : a # lastFetch.name /\ outgoing_queues[a] # <<>>
    /\ Len(sent) >= 2

\* C9: when stop() returns, the queue store holds no message accepted before stop()
\* was called, and no fetch made after stop() has returned pops such a message.
C9_ClearedByStop ==
    /\ [][(bpc = "join" /\ bpc' = "idle") => Queued' \cap 1..stopMark = {}]_vars
    /\ [][(FetchStep /\ bpc = "idle" /\ cur > 1 /\ lastFetch'.msg # NoMsg)
             => lastFetch'.msg.id > stopMark]_vars

\* C10: a listener started by start() is never kept from binding its port; after a
\* restart the fresh listeners reach accept.
C10_Restart == \A r \in Listeners, g \in Gens : pc[r][g] # "crashed"

\* what the sender gets of the sends of a submit connection
Received(ls) == IF ls.err = "send" THEN <<>> ELSE ls.sends

\* the submit handler of generation g holds the message with this id, about to push it
Holding(g, id) == pc["recv"][g] \in {"push", "append"} /\ msg[g].id = id

\* C11 as claimed: the sender of every handled submit connection receives exactly
\* one of OK and FAIL, OK only for a message the handler enqueues.
C11_SubmitResponse ==
    lastSubmit.n > 0 =>
        /\ Received(lastSubmit) \in {<<"OK">>, <<"FAIL">>}
        /\ Received(lastSubmit) = <<"OK">> =>
               \/ \E g \in Gens : Holding(g, Len(sent))
               \/ Len(sent) \in Queued \cup Range(delivered) \cup lost \cup expired

\* C11 as amended: unless a send raises, exactly one of OK and FAIL is sent; when
\* sends raise the sender receives neither and nothing is enqueued; OK is received
\* exactly when the handler goes on to push the message, which the push then
\* enqueues; the answer itself leaves the queue store as it was.
C11_SubmitResponseSent ==
    /\ [][SubmitStep =>
            LET ls == lastSubmit'
                kept == /\ sent' = Append(sent, ls.wire)
                        /\ \E g \in Gens : pc'["recv"][g] = "push" /\ msg'[g].id = Len(sent')
            IN /\ ls.err # "send" => ls.sends \in {<<"OK">>, <<"FAIL">>}
               /\ ls.err = "send" => ls.sends \in {<<"OK", "FAIL">>, <<"FAIL">>}
               /\ Received(ls) = <<"OK">> <=> kept
               /\ ~kept => sent' = sent /\ \A g \in Gens : pc'["recv"][g] # "push"
               /\ outgoing_queues' = outgoing_queues]_vars
    /\ [][\A g \in Gens :
            (pc["recv"][g] = "append" /\ pc'["recv"][g] # "append") => msg[g].id \in Queued']_vars

\* the send of OK raised for a well-formed frame after another message was enqueued
C11_Witness ==
    /\ lastSubmit.err = "send"
    /\ lastSubmit.sends = <<"OK", "FAIL">>
    /\ Queued # {}

\* thread (r, g) has been started and has not left its function
Alive(r, g) == pc[r][g] \in {"bind", "accept", "stuck", "push", "append", "sleep"}

\* no client has connected to either listener
NoClient ==
    /\ lastSubmit.n = 0
    /\ lastFetch.n = 0
    /\ \A r \in Listeners, g \in Gens : pc[r][g] # "stuck"

\* C12: once stop() has set running to False, every loop that is still alive
\* leaves its function in the end, even when no client ever connects.
C12_StopLiveness ==
    \A r \in Roles, g \in Gens :
        (~running /\ Alive(r, g)) ~> (pc[r][g] \in {"done", "crashed"} \/ ~NoClient)

\* C13: a call of start() that finds the broker running starts no thread and
\* changes neither running nor the queue store, nor anything else of the broker.
C13_StartIdempotent ==
    /\ [](startNoop => running)
    /\ [][(~startNoop /\ startNoop') =>
             /\ running /\ running'
             /\ pc' = pc
             /\ outgoing_queues' = outgoing_queues
             /\ UNCHANGED <<cur, port, msg, bpc>>]_vars

\* start() was called on a running broker whose listeners accept and whose queue
\* store holds a message
C13_Witness ==
    /\ startNoop
    /\ \A r \in Listeners : pc[r][cur] = "accept"
    /\ Queued # {}

\* C14: when a listener started by start() cannot bind its port, the broker is not
\* left running.
C14_BindFailureFatal ==
    \A r \in Listeners : pc[r][cur] = "crashed" => ~running

\* the ids of the queued messages that are older than TTL
QueuedExpired ==
    {id \in Queued : \E a \in DOMAIN outgoing_queues : \E i \in DOMAIN outgoing_queues[a] :
        outgoing_queues[a][i].id = id /\ IsExpired(outgoing_queues[a][i], now)}

\* C15: while the broker is running, a queued message older than TTL leaves the
\* queue store in the end, even when no fetch is ever made.
C15_SweeperEviction ==
    \A id \in 1..MaxSubmits :
        (running /\ id \in QueuedExpired /\ lastFetch.n = 0)
            ~> (id \notin Queued \/ lastFetch.n # 0)

\* C16: a submit of more than MAX_MSG_SIZE characters is never answered OK, and no
\* accepted message stems from such a submit.
C16_OversizedRejected ==
    /\ Len(lastSubmit.wire) > MAX_MSG_SIZE => "OK" \notin Range(lastSubmit.sends)
    /\ \A id \in 1..Len(sent) : Len(sent[id]) <= MAX_MSG_SIZE

\* the ids of the messages whose push has been made
Pushed == {id \in 1..Len(sent) : \A g \in Gens : ~Holding(g, id)}

\* how many fetches have received the message
TimesDelivered(id) == Cardinality({i \in DOMAIN delivered : delivered[i] = id})

\* C17 as claimed: every pushed message is still queued, or was received by
\* exactly one fetch, or was discarded as expired, and only one of the three.
C17_NoLoss ==
    \A id \in Pushed :
        \/ id \in Queued /\ TimesDelivered(id) = 0 /\ id \notin expired
        \/ id \notin Queued /\ TimesDelivered(id) = 1 /\ id \notin expired
        \/ id \notin Queued /\ TimesDelivered(id) = 0 /\ id \in expired

\* C17 as amended: every pushed message is still queued, or was received by
\* exactly one fetch, or was popped by one fetch whose send raised, or was
\* discarded as expired, and only one of the four; a message not yet pushed is
\* none of them.
C17_NoLossSent ==
    /\ \A id \in Pushed :
         \/ id \in Queued /\ TimesDelivered(id) = 0 /\ id \notin lost \cup expired
         \/ id \notin Queued /\ TimesDelivered(id) = 1 /\ id \notin lost \cup expired
         \/ id \notin Queued /\ TimesDelivered(id) = 0 /\ id \in lost /\ id \notin expired
         \/ id \notin Queued /\ TimesDelivered(id) = 0 /\ id \in expired /\ id \notin lost
    /\ \A id \in (1..Len(sent)) \ Pushed :
         id \notin Queued \cup Range(delivered) \cup lost \cup expired

\* of two pushed messages for one destination the first was popped by a fetch
\* whose send raised and the second is queued
C17_Witness ==
    /\ Pushed = {1, 2}
    /\ DestOf(sent[1]) = DestOf(sent[2])
    /\ 1 \in lost
    /\ 2 \in Queued

\* C18: when a listener is back from handling a connection, on whatever path, it
\* has closed that connection.
C18_ConnectionClosed ==
    /\ lastSubmit.n > 0 => lastSubmit.closed
    /\ lastFetch.n > 0 => lastFetch.closed

\* C19: no connection keeps a listener from accepting the next one: a listener is
\* never left blocked inside the handling of a connection.
C19_ListenerResilient ==
    \A r \in Listeners, g \in Gens : pc[r][g] # "stuck"

\* C20: stop() called on a running broker can return whatever its threads are
\* doing, and when it returns running is False and the broker holds three
\* threads that were never started.
C20_StopReturns ==
    /\ [](bpc = "join" => ENABLED StopRedefine)
    /\ [](bpc = "join" => ~running)
    /\ [][(bpc = "join" /\ bpc' = "idle") =>
             /\ ~running'
             /\ cur' # cur
             /\ \A r \in Roles : pc'[r][cur'] = "new"]_vars

\* stop() has returned while one listener is blocked in a connection and the other
\* in accept
C20_Witness ==
    /\ bpc = "idle"
    /\ ~running
    /\ cur = 2
    /\ pc["recv"][1] = "stuck"
    /\ pc["fetch"][1] = "accept"

\* C21: the queue store keeps one queue per destination address, holding the
\* messages for that address and no others; a queue appears only when the submit
\* handler is about to push a message for an address that has none, and it
\* appears empty; no queue is removed and none that holds messages is replaced;
\* a fetch for an address without a queue leaves the queue store as it was.
C21_QueueIdentity ==
    /\ [](\A a \in DOMAIN outgoing_queues : \A i \in DOMAIN outgoing_queues[a] :
            outgoing_queues[a][i].dest_addr = a)
    /\ [][DOMAIN outgoing_queues \subseteq DOMAIN outgoing_queues']_vars
    /\ [][DOMAIN outgoing_queues' # DOMAIN outgoing_queues =>
            \E g \in Gens :
               /\ pc["recv"][g] = "push" /\ pc'["recv"][g] = "append"
               /\ msg[g].dest_addr \notin DOMAIN outgoing_queues
               /\ DOMAIN outgoing_queues' = DOMAIN outgoing_queues \cup {msg[g].dest_addr}
               /\ outgoing_queues'[msg[g].dest_addr] = <<>>
               /\ \A a \in DOMAIN outgoing_queues :
                     outgoing_queues'[a] = outgoing_queues[a]]_vars
    /\ [][\A g \in Gens : (pc["recv"][g] = "push" /\ pc'["recv"][g] = "append") =>
            \A a \in DOMAIN outgoing_queues : outgoing_queues'[a] = outgoing_queues[a]]_vars
    /\ [][(FetchStep /\ lastFetch'.name \notin DOMAIN outgoing_queues)
             => outgoing_queues' = outgoing_queues]_vars

\* a fetch asked for an address that has no queue, after two messages were pushed
\* to the one queue of another address: the store still holds that queue only
C21_Witness ==
    /\ lastFetch.n > 0
    /\ lastFetch.name # 0
    /\ lastFetch.name \notin DOMAIN outgoing_queues
    /\ \E a \in DOMAIN outgoing_queues : Len(outgoing_queues[a]) = 2
    /\ Cardinality(DOMAIN outgoing_queues) = 1

\* C22: a running broker has at most one live loop of each role, and a thread left
\* behind by a stop() that has returned never passes its loop test again.
C22_SingleLoop ==
    /\ [](running => \A r \in Roles : Cardinality({g \in Gens : Alive(r, g)}) <= 1)
    /\ [][\A r \in Listeners, g \in Gens :
            (g < cur /\ pc[r][g] # "accept") => pc'[r][g] # "accept"]_vars

====
